---- MODULE Spec2Model ----
(***************************************************************************)
(* Model of the crash visualisation page: getStaticProps (the aggregation  *)
(* pipeline of src/pages/index.js), the Home component's selection state,  *)
(* and the effects and event handlers of StackedAreaChart and Treemap.     *)
(***************************************************************************)
EXTENDS Integers, Sequences, FiniteSets, TLC

VARIABLES
    cleanedData,    \* the cleaned rows getStaticProps aggregates
    pc,             \* "static" (before getStaticProps), "page" (props built), "mounted"
    props,          \* the props getStaticProps returns to Home
    selectedCause,  \* Home's useState value: NULL or a cause
    chart,          \* what StackedAreaChart's effect built
    treemap,        \* what Home renders in the treemap container
    areaTooltip,    \* StackedAreaChart's tooltip div
    leafTooltip,    \* Treemap's tooltip div
    lastEvent       \* the handler that ran last, with its arguments

vars == <<cleanedData, pc, props, selectedCause, chart, treemap,
          areaTooltip, leafTooltip, lastEvent>>

NULL == "null"

(***************************************************************************)
(* Bounds and input universes.                                             *)
(***************************************************************************)
MaxRecords == 3

Causes == {"A", "B", "C"}
Locations == {"X", "Y"}
Years == {2000, 2007}
SurvivorFlags == {"Yes", "No"}

\* One cleaned row; a row without survivors carries 5 fatalities, one with
\* survivors none.
Row(y, c, l, s) ==
    [year |-> y, cause |-> c, location |-> l,
     fatalities |-> IF s = "No" THEN 5 ELSE 0, survivors |-> s]

\* The rows datasets are drawn from: every year, cause and location; cause A
\* with either survivors flag at each location, the other causes with
\* survivors at Y only.
Rows ==
    {r \in {Row(y, c, l, s) : y \in Years, c \in Causes, l \in Locations, s \in SurvivorFlags} :
        r.cause = "A" \/ r.survivors = (IF r.location = "Y" THEN "Yes" ELSE "No")}

Datasets == UNION {[1..n -> Rows] : n \in 0..MaxRecords}

\* The two-record end-to-end input.
EndToEndData == <<Row(2000, "A", "X", "No"), Row(2000, "B", "Y", "Yes")>>

\* The datasets the interaction specification starts from.
PageDatasets ==
    { EndToEndData,
      <<Row(2000, "B", "X", "No"), Row(2007, "A", "Y", "Yes"), Row(2007, "B", "X", "No")>> }

\* Pointer positions relative to the svg, and the tooltip's measured size.
PointerXs == {50, 790, 791, 950}
PointerYs == {49, 50}
TooltipWidths == {200}
TooltipHeights == {40}

(***************************************************************************)
(* Library helpers (lodash, Array.prototype, d3-array).                    *)
(***************************************************************************)
Range(s) == {s[i] : i \in 1..Len(s)}

\* _.uniq: the distinct values in order of first occurrence.
RECURSIVE Uniq(_)
Uniq(s) ==
    IF s = <<>> THEN <<>>
    ELSE LET init == Uniq(SubSeq(s, 1, Len(s) - 1))
             last == s[Len(s)]
         IN  IF last \in Range(init) THEN init ELSE Append(init, last)

\* The keys of _.groupBy(rows, field) for a string-valued field: object keys
\* in insertion order, that is the order of first occurrence.
GroupKeys(rows, field) == Uniq([i \in 1..Len(rows) |-> rows[i][field]])

\* One group of _.groupBy(rows, field): the rows with that key, in order.
GroupBy(rows, field, k) == SelectSeq(rows, LAMBDA r : r[field] = k)

\* The keys of an object with integer-like keys are enumerated ascending.
RECURSIVE SortedSeq(_)
SortedSeq(S) ==
    IF S = {} THEN <<>>
    ELSE LET m == CHOOSE x \in S : \A y \in S : x <= y
         IN  <<m>> \o SortedSeq(S \ {m})

RECURSIVE SumSeq(_)
SumSeq(s) == IF s = <<>> THEN 0 ELSE s[1] + SumSeq(Tail(s))

\* _.sumBy(rows, field)
SumBy(rows, field) == SumSeq([i \in 1..Len(rows) |-> rows[i][field]])

\* Array.prototype.sort with the comparator (a, b) => b[key] - a[key]: a stable
\* sort, descending by key.
RECURSIVE InsertDesc(_, _, _)
InsertDesc(sorted, x, key) ==
    IF sorted = <<>> THEN <<x>>
    ELSE IF x[key] > sorted[1][key] THEN <<x>> \o sorted
    ELSE <<sorted[1]>> \o InsertDesc(Tail(sorted), x, key)

RECURSIVE SortDescBy(_, _)
SortDescBy(s, key) ==
    IF s = <<>> THEN <<>>
    ELSE InsertDesc(SortDescBy(SubSeq(s, 1, Len(s) - 1), key), s[Len(s)], key)

\* Array.prototype.sort with (a, b) => a[key] - b[key]: stable, ascending.
RECURSIVE InsertAsc(_, _, _)
InsertAsc(sorted, x, key) ==
    IF sorted = <<>> THEN <<x>>
    ELSE IF x[key] < sorted[1][key] THEN <<x>> \o sorted
    ELSE <<sorted[1]>> \o InsertAsc(Tail(sorted), x, key)

RECURSIVE SortAscBy(_, _)
SortAscBy(s, key) ==
    IF s = <<>> THEN <<>>
    ELSE InsertAsc(SortAscBy(SubSeq(s, 1, Len(s) - 1), key), s[Len(s)], key)

\* d3.range(start, stop, step) for a positive step.
D3Range(start, stop, step) ==
    LET n == IF stop > start THEN (stop - start + step - 1) \div step ELSE 0
    IN  [i \in 1..n |-> start + (i - 1) * step]

(***************************************************************************)
(* getStaticProps: the aggregation pipeline.                               *)
(***************************************************************************)
\* A cause list taken from a fixed catalogue, not from the rows.
CausesOfCatalogue(cd) == <<"A", "B", "C">>

\* causes: the distinct causes in first-seen order.
CausesOf(cd) == Uniq([i \in 1..Len(cd) |-> cd[i].cause])

\* One row of stackedAreaData: the year and, for every cause, the number of
\* the year's rows with that cause (0 for a cause without one).
YearPoint(yearGroup, year, causes) ==
    [year |-> year,
     counts |-> [c \in Range(causes) |-> Len(GroupBy(yearGroup, "cause", c))]]

StackedAreaData(cd, causes) ==
    LET years == SortedSeq({cd[i].year : i \in 1..Len(cd)})
    IN  [j \in 1..Len(years) |->
            YearPoint(GroupBy(cd, "year", years[j]), years[j], causes)]

\* Children that always hold both survivor buckets, empty ones included.
SurvivorChildrenBoth(rows) ==
    LET ks == <<"Yes", "No">>
    IN  [i \in 1..Len(ks) |->
            LET group == GroupBy(rows, "survivors", ks[i])
            IN  [name |-> ks[i], crashes |-> Len(group),
                 fatalities |-> SumBy(group, "fatalities")]]

\* The children of a cause or location node: one leaf per survivors value
\* that occurs in the group.
SurvivorChildren(rows) ==
    LET ks == GroupKeys(rows, "survivors")
    IN  [i \in 1..Len(ks) |->
            LET group == GroupBy(rows, "survivors", ks[i])
            IN  [name |-> ks[i], crashes |-> Len(group),
                 fatalities |-> SumBy(group, "fatalities")]]

TreemapDefaultData(cd) ==
    LET ks == GroupKeys(cd, "cause")
    IN  [i \in 1..Len(ks) |->
            [name |-> ks[i], children |-> SurvivorChildren(GroupBy(cd, "cause", ks[i]))]]

LocationNodes(causeGroup) ==
    LET ks == GroupKeys(causeGroup, "location")
    IN  [i \in 1..Len(ks) |->
            [name |-> ks[i],
             children |-> SurvivorChildren(GroupBy(causeGroup, "location", ks[i]))]]

TreemapInteractiveData(cd) ==
    [c \in Range(GroupKeys(cd, "cause")) |->
        [cause |-> c, locations |-> LocationNodes(GroupBy(cd, "cause", c))]]

StaticProps(cd) ==
    LET causes == CausesOf(cd)
    IN  [causes |-> causes,
         stackedAreaData |-> StackedAreaData(cd, causes),
         treemapDefaultData |-> TreemapDefaultData(cd),
         treemapInteractiveData |-> TreemapInteractiveData(cd)]

NoProps ==
    [causes |-> <<>>, stackedAreaData |-> <<>>, treemapDefaultData |-> <<>>,
     treemapInteractiveData |-> <<>>]

(***************************************************************************)
(* StackedAreaChart: what the effect computes before drawing.              *)
(***************************************************************************)
ChartWidth == 1000
TreemapWidth == 1000

\* d[cause] || 0 for a row d of stackedAreaData.
CountOr0(d, cause) == IF cause \in DOMAIN d.counts THEN d.counts[cause] ELSE 0

\* causeTotals before the sort: every cause with its total over all years.
CauseTotals(data, causes) ==
    [i \in 1..Len(causes) |->
        [cause |-> causes[i],
         total |-> SumSeq([j \in 1..Len(data) |-> CountOr0(data[j], causes[i])])]]

\* A sort of the totals the wrong way round.
SortCauseTotalsAscending(totals) == SortAscBy(totals, "total")

\* .sort((a, b) => b.total - a.total)
SortCauseTotals(totals) == SortDescBy(totals, "total")

\* sortedCauses
SortedCauses(data, causes) ==
    LET sorted == SortCauseTotals(CauseTotals(data, causes))
    IN  [i \in 1..Len(sorted) |-> sorted[i].cause]

\* data.sort((a, b) => a.year - b.year)
SortByYear(data) == SortAscBy(data, "year")

\* A stack that leaves every series on the baseline.
StackOnBaseline(keys, data) ==
    [k \in 1..Len(keys) |->
        [key |-> keys[k],
         points |-> [j \in 1..Len(data) |->
                        [y0 |-> 0, y1 |-> data[j].counts[keys[k]],
                         year |-> data[j].year]]]]

\* d3.stack().keys(keys)(data) with the default order and offset: one series
\* per key, in key order; the series of a key holds one [y0, y1] per row, y0
\* being the y1 of the previous key's series at that row (0 for the first).
RECURSIVE Stack(_, _)
Stack(keys, data) ==
    IF keys = <<>> THEN <<>>
    ELSE LET below == Stack(SubSeq(keys, 1, Len(keys) - 1), data)
             key == keys[Len(keys)]
             base(j) == IF below = <<>> THEN 0 ELSE below[Len(below)].points[j].y1
         IN  Append(below,
                 [key |-> key,
                  points |-> [j \in 1..Len(data) |->
                                 [y0 |-> base(j),
                                  y1 |-> base(j) + data[j].counts[key],
                                  year |-> data[j].year]]])

\* xScale.domain(): [d3.min(year), d3.max(year)]; <<>> stands for the pair of
\* undefined an empty data array gives.
XDomain(data) ==
    IF data = <<>> THEN <<>>
    ELSE LET ys == {data[j].year : j \in 1..Len(data)}
         IN  << CHOOSE y \in ys : \A z \in ys : y <= z,
                CHOOSE y \in ys : \A z \in ys : y >= z >>

\* d3.range(Math.ceil(min / 10) * 10, max + 10, 10); empty for the NaN bounds
\* of an empty domain.
DecadeTicks(domain) ==
    IF domain = <<>> THEN <<>>
    ELSE D3Range(((domain[1] + 9) \div 10) * 10, domain[2] + 10, 10)

\* decadeRanges: one range between each pair of adjacent ticks, then the range
\* from the last tick to the end of the domain.
DecadeRanges(ticks, domain) ==
    IF ticks = <<>> THEN <<>>
    ELSE [i \in 1..Len(ticks) |->
            IF i < Len(ticks)
            THEN [start |-> ticks[i], end |-> ticks[i + 1]]
            ELSE [start |-> ticks[Len(ticks)], end |-> domain[2]]]

StackedAreaChartEffect(data0, causes) ==
    LET sortedCauses == SortedCauses(data0, causes)
        data == SortByYear(data0)
        domain == XDomain(data)
        ticks == DecadeTicks(domain)
    IN  [sortedCauses |-> sortedCauses,
         data |-> data,
         series |-> Stack(sortedCauses, data),
         domain |-> domain,
         colorDomain |-> sortedCauses,
         decadeTicks |-> ticks,
         decadeRanges |-> DecadeRanges(ticks, domain),
         legend |-> sortedCauses]

NoChart ==
    [sortedCauses |-> <<>>, data |-> <<>>, series |-> <<>>, domain |-> <<>>,
     colorDomain |-> <<>>, decadeTicks |-> <<>>, decadeRanges |-> <<>>,
     legend |-> <<>>]

\* The years a decade range's tooltip sums over:
\* data.filter(d => d.year >= startYear && d.year <= endYear).
InRange(year, r) == year >= r.start /\ year <= r.end

\* decadeTotals of the tooltip-area mouseover.
DecadeTotals(c, r) ==
    LET decadeData == SelectSeq(c.data, LAMBDA d : InRange(d.year, r))
    IN  [i \in 1..Len(c.sortedCauses) |->
            [cause |-> c.sortedCauses[i],
             total |-> SumSeq([j \in 1..Len(decadeData) |->
                                 CountOr0(decadeData[j], c.sortedCauses[i])])]]

\* A tooltip-area rect can be hovered when it has a positive width:
\* xScale(d.end) - xScale(d.start) > 0. The linear scale is increasing on a
\* proper domain and constant on a one-point domain.
Hoverable(c, r) == c.domain[1] < c.domain[2] /\ r.start < r.end

\* A placement that also flips when the tooltip exactly touches the edges.
PlaceTooltipEager(px, py, tw, th, width) ==
    LET x0 == px + 10
        y0 == py - th - 10
    IN  << IF x0 + tw >= width THEN px - tw - 10 ELSE x0,
           IF y0 <= 0 THEN py + 10 ELSE y0 >>

\* Tooltip position of both charts' mouseover handlers: up-right of the
\* pointer, flipped left past the right edge and flipped below past the top.
PlaceTooltip(px, py, tw, th, width) ==
    LET x0 == px + 10
        y0 == py - th - 10
    IN  << IF x0 + tw > width THEN px - tw - 10 ELSE x0,
           IF y0 < 0 THEN py + 10 ELSE y0 >>

(***************************************************************************)
(* Treemap: the hierarchy the effect builds before the d3 layout.          *)
(***************************************************************************)
\* d3.hierarchy(data).sum(d => d.crashes || 0) below the root: a leaf's value
\* is its crashes, a group's value the sum of its leaves'.
LeafNode(d) ==
    [name |-> d.name, value |-> d.crashes, crashes |-> d.crashes,
     fatalities |-> d.fatalities]

GroupNode(d) ==
    LET ch == [i \in 1..Len(d.children) |-> LeafNode(d.children[i])]
    IN  [name |-> d.name, value |-> SumBy(ch, "value"), children |-> ch]

Hierarchy(data) ==
    LET ch == [i \in 1..Len(data.children) |-> GroupNode(data.children[i])]
    IN  [name |-> data.name, value |-> SumBy(ch, "value"), children |-> ch]

\* Children left in the order they arrive in.
SortChildrenSkipped(children) == children

\* node.sort((a, b) => b.value - a.value): the children of every node.
SortChildren(children) == SortDescBy(children, "value")

HierarchySort(root) ==
    LET groups == [i \in 1..Len(root.children) |->
                      [root.children[i] EXCEPT
                          !.children = SortChildren(root.children[i].children)]]
    IN  [root EXCEPT !.children = SortChildren(groups)]

TreemapEffect(data) == HierarchySort(Hierarchy(data))

\* root.leaves() below the root, in traversal order, each with its group.
RECURSIVE LeavesOf(_)
LeavesOf(groups) ==
    IF groups = <<>> THEN <<>>
    ELSE [i \in 1..Len(groups[1].children) |->
             [group |-> groups[1].name, leaf |-> groups[1].children[i]]]
         \o LeavesOf(Tail(groups))

Leaves(root) == LeavesOf(root.children)

\* The label of a node in the tooltip path.
PathName(name) ==
    IF name = "Yes" THEN "Survivors Present"
    ELSE IF name = "No" THEN "No Survivors" ELSE name

(***************************************************************************)
(* Home: what the treemap container shows for a selection.                 *)
(***************************************************************************)
\* A Home that shows the aggregate data whatever is selected.
TreemapDataAggregate(p, sel) == [name |-> "Root", children |-> p.treemapDefaultData]

\* treemapData.data
TreemapData(p, sel) ==
    IF sel # NULL /\ sel \in DOMAIN p.treemapInteractiveData
    THEN [name |-> "Root", children |-> p.treemapInteractiveData[sel].locations]
    ELSE [name |-> "Root", children |-> p.treemapDefaultData]

NoRoot == [name |-> "Root", value |-> 0, children |-> <<>>]

\* The "No location data available" paragraph, or the Treemap component.
HomeRender(p, sel) ==
    IF sel # NULL /\ sel \notin DOMAIN p.treemapInteractiveData
    THEN [view |-> "NotFound", root |-> NoRoot]
    ELSE [view |-> "Treemap", root |-> TreemapEffect(TreemapData(p, sel))]

NoTooltip == [opacity |-> 0, pos |-> <<>>, html |-> <<>>]

Event(type, key, from, target, at) ==
    [type |-> type, key |-> key, from |-> from, target |-> target, at |-> at]

(***************************************************************************)
(* Initial states.                                                         *)
(***************************************************************************)
InitWith(data) ==
    /\ cleanedData \in data
    /\ pc = "static"
    /\ props = NoProps
    /\ selectedCause = NULL
    /\ chart = NoChart
    /\ treemap = [view |-> "none", root |-> NoRoot]
    /\ areaTooltip = NoTooltip
    /\ leafTooltip = NoTooltip
    /\ lastEvent = Event("init", NULL, NULL, 0, <<>>)

\* The pipeline specification starts from any bounded dataset, the page
\* specification from the page datasets.
InitPipeline == InitWith(Datasets)
Init == InitWith(PageDatasets)

(***************************************************************************)
(* Operations.                                                             *)
(***************************************************************************)
GetStaticProps ==
    /\ pc = "static"
    /\ props' = StaticProps(cleanedData)
    /\ pc' = "page"
    /\ lastEvent' = Event("getStaticProps", NULL, NULL, 0, <<>>)
    /\ UNCHANGED <<cleanedData, selectedCause, chart, treemap, areaTooltip, leafTooltip>>

\* Home's first render and the two charts' effects. The chart's effect sorts
\* the data prop in place.
Mount ==
    /\ pc = "page"
    /\ chart' = StackedAreaChartEffect(props.stackedAreaData, props.causes)
    /\ props' = [props EXCEPT !.stackedAreaData = chart'.data]
    /\ treemap' = HomeRender(props, selectedCause)
    /\ pc' = "mounted"
    /\ lastEvent' = Event("mount", NULL, NULL, 0, <<>>)
    /\ UNCHANGED <<cleanedData, selectedCause, areaTooltip, leafTooltip>>

\* A click handler that toggles: a second click on the selected cause clears it.
AreaClickToggles(k) ==
    /\ pc = "mounted"
    /\ k \in 1..Len(chart.series)
    /\ selectedCause' = IF selectedCause = NULL THEN chart.series[k].key ELSE NULL
    /\ treemap' = HomeRender(props, selectedCause')
    /\ lastEvent' = Event("areaClick", chart.series[k].key, selectedCause, k, <<>>)
    /\ UNCHANGED <<cleanedData, pc, props, chart, areaTooltip, leafTooltip>>

\* Click on the area of series k: setSelectedCause(d.key), then Home renders
\* again and the Treemap effect runs on the new data.
AreaClick(k) ==
    /\ pc = "mounted"
    /\ k \in 1..Len(chart.series)
    /\ selectedCause' = chart.series[k].key
    /\ treemap' = HomeRender(props, selectedCause')
    /\ lastEvent' = Event("areaClick", chart.series[k].key, selectedCause, k, <<>>)
    /\ UNCHANGED <<cleanedData, pc, props, chart, areaTooltip, leafTooltip>>

\* handleReset, from the button Home renders while a cause is selected.
Reset ==
    /\ pc = "mounted"
    /\ selectedCause # NULL
    /\ selectedCause' = NULL
    /\ treemap' = HomeRender(props, selectedCause')
    /\ lastEvent' = Event("reset", NULL, selectedCause, 0, <<>>)
    /\ UNCHANGED <<cleanedData, pc, props, chart, areaTooltip, leafTooltip>>

\* mouseover on the tooltip-area rect of decade range i, with the pointer at
\* (px, py) relative to the svg and the tooltip measuring tw by th.
TooltipAreaMouseover(i, px, py, tw, th) ==
    /\ pc = "mounted"
    /\ i \in 1..Len(chart.decadeRanges)
    /\ Hoverable(chart, chart.decadeRanges[i])
    /\ areaTooltip' =
          [opacity |-> 1,
           pos |-> PlaceTooltip(px, py, tw, th, ChartWidth),
           html |-> <<chart.decadeRanges[i].start, chart.decadeRanges[i].end,
                      DecadeTotals(chart, chart.decadeRanges[i])>>]
    /\ lastEvent' = Event("tooltipAreaMouseover", NULL, selectedCause, i, <<px, py, tw, th>>)
    /\ UNCHANGED <<cleanedData, pc, props, selectedCause, chart, treemap, leafTooltip>>

TooltipAreaMouseout(i) ==
    /\ pc = "mounted"
    /\ i \in 1..Len(chart.decadeRanges)
    /\ Hoverable(chart, chart.decadeRanges[i])
    /\ areaTooltip' = [areaTooltip EXCEPT !.opacity = 0]
    /\ lastEvent' = Event("tooltipAreaMouseout", NULL, selectedCause, i, <<>>)
    /\ UNCHANGED <<cleanedData, pc, props, selectedCause, chart, treemap, leafTooltip>>

\* A tooltip-area click that is not absorbed and selects the first series.
TooltipAreaClickSelects(i) ==
    /\ pc = "mounted"
    /\ i \in 1..Len(chart.decadeRanges)
    /\ Hoverable(chart, chart.decadeRanges[i])
    /\ selectedCause' = chart.series[1].key
    /\ treemap' = HomeRender(props, selectedCause')
    /\ lastEvent' = Event("tooltipAreaClick", NULL, selectedCause, i, <<>>)
    /\ UNCHANGED <<cleanedData, pc, props, chart, areaTooltip, leafTooltip>>

\* click on a tooltip-area rect: event.stopPropagation() and nothing else.
TooltipAreaClick(i) ==
    /\ pc = "mounted"
    /\ i \in 1..Len(chart.decadeRanges)
    /\ Hoverable(chart, chart.decadeRanges[i])
    /\ lastEvent' = Event("tooltipAreaClick", NULL, selectedCause, i, <<>>)
    /\ UNCHANGED <<cleanedData, pc, props, selectedCause, chart, treemap,
                   areaTooltip, leafTooltip>>

\* mouseover on treemap leaf l.
LeafMouseover(l, px, py, tw, th) ==
    /\ pc = "mounted"
    /\ treemap.view = "Treemap"
    /\ l \in 1..Len(Leaves(treemap.root))
    /\ LET d == Leaves(treemap.root)[l]
       IN  leafTooltip' =
              [opacity |-> 1,
               pos |-> PlaceTooltip(px, py, tw, th, TreemapWidth),
               html |-> <<PathName(d.group), PathName(d.leaf.name),
                          d.leaf.crashes, d.leaf.fatalities>>]
    /\ lastEvent' = Event("leafMouseover", NULL, selectedCause, l, <<px, py, tw, th>>)
    /\ UNCHANGED <<cleanedData, pc, props, selectedCause, chart, treemap, areaTooltip>>

LeafMouseout(l) ==
    /\ pc = "mounted"
    /\ treemap.view = "Treemap"
    /\ l \in 1..Len(Leaves(treemap.root))
    /\ leafTooltip' = [leafTooltip EXCEPT !.opacity = 0]
    /\ lastEvent' = Event("leafMouseout", NULL, selectedCause, l, <<>>)
    /\ UNCHANGED <<cleanedData, pc, props, selectedCause, chart, treemap, areaTooltip>>

\* The pipeline alone: the props are built and the charts' effects run.
NextPipeline ==
    \/ GetStaticProps
    \/ Mount

Next ==
    \/ GetStaticProps
    \/ Mount
    \/ \E k \in 1..Len(chart.series) : AreaClick(k)
    \/ Reset
    \/ \E i \in 1..Len(chart.decadeRanges), px \in PointerXs, py \in PointerYs,
          tw \in TooltipWidths, th \in TooltipHeights :
          TooltipAreaMouseover(i, px, py, tw, th)
    \/ \E i \in 1..Len(chart.decadeRanges) : TooltipAreaMouseout(i)
    \/ \E i \in 1..Len(chart.decadeRanges) : TooltipAreaClick(i)
    \/ \E l \in 1..Len(Leaves(treemap.root)), px \in PointerXs, py \in PointerYs,
          tw \in TooltipWidths, th \in TooltipHeights :
          LeafMouseover(l, px, py, tw, th)
    \/ \E l \in 1..Len(Leaves(treemap.root)) : LeafMouseout(l)

Spec == Init /\ [][Next]_vars
SpecPipeline == InitPipeline /\ [][NextPipeline]_vars

(***************************************************************************)
(* Claims about the selection state and the tooltips (specification Spec). *)
(***************************************************************************)

\* C1: the selection starts as Aggregate (selectedCause = NULL); a click on the
\* stacked area of a cause leaves it at Detail(that cause) whatever it was
\* before, and reset leaves it at Aggregate.
SelectionTransitions ==
    /\ (lastEvent.type \in {"init", "getStaticProps", "mount"} => selectedCause = NULL)
    /\ (lastEvent.type = "areaClick" =>
            /\ selectedCause = chart.sortedCauses[lastEvent.target]
            /\ selectedCause # NULL)
    /\ (lastEvent.type = "reset" => selectedCause = NULL)

\* A click on one cause's area while another cause was selected.
ReentrantSelectionReached ==
    /\ lastEvent.type = "areaClick"
    /\ lastEvent.from \notin {NULL, selectedCause}
    /\ selectedCause = chart.sortedCauses[lastEvent.target]

\* C2: only an area click or reset changes selectedCause; hovers, mouseouts and
\* tooltip-area clicks leave it unchanged.
SelectionFrame ==
    [][selectedCause' # selectedCause => lastEvent'.type \in {"areaClick", "reset"}]_vars

\* A tooltip-area click handled while a cause is selected.
AbsorbedClickReached ==
    /\ lastEvent.type = "tooltipAreaClick"
    /\ selectedCause # NULL
    /\ lastEvent.from = selectedCause

\* The placement the claim describes for a pointer (px, py), a tooltip of size
\* tw by th and a viewport of the given width.
PlacedAsClaimed(pos, at, width) ==
    LET px == at[1]
        py == at[2]
        tw == at[3]
        th == at[4]
        overflowsRight == (px + 10) + tw > width
        overflowsTop == (py - 10) - th < 0
        leftOfPointer == pos[1] + tw + 10 = px
        rightOfPointer == pos[1] = px + 10
        belowPointer == pos[2] = py + 10
        abovePointer == pos[2] + th + 10 = py
    IN  /\ leftOfPointer <=> overflowsRight
        /\ rightOfPointer <=> ~overflowsRight
        /\ belowPointer <=> overflowsTop
        /\ abovePointer <=> ~overflowsTop
        /\ (width = 1000 /\ tw = 200 /\ px = 950 => pos[1] <= 800)
        /\ (width = 1000 /\ tw = 200 /\ px = 50 => pos[1] = 60)

\* C7: the tooltip is placed up-right of the pointer at a margin of 10, flipped
\* left exactly when that would overflow the right edge and, independently,
\* flipped below exactly when it would overflow the top edge.
TooltipPlacement ==
    /\ (lastEvent.type = "tooltipAreaMouseover" =>
            /\ areaTooltip.opacity = 1
            /\ PlacedAsClaimed(areaTooltip.pos, lastEvent.at, ChartWidth))
    /\ (lastEvent.type = "leafMouseover" =>
            /\ leafTooltip.opacity = 1
            /\ PlacedAsClaimed(leafTooltip.pos, lastEvent.at, TreemapWidth))

\* Pointer x = 950 with a 200 wide tooltip: flipped left, not flipped below.
FlippedLeftReached ==
    /\ lastEvent.type = "tooltipAreaMouseover"
    /\ lastEvent.at = <<950, 50, 200, 40>>
    /\ areaTooltip.pos = <<740, 0>>

(***************************************************************************)
(* Claims about the pipeline (specification SpecPipeline).                 *)
(***************************************************************************)
\* Counts taken directly from the cleaned rows.
RowsWhere(P(_)) == {i \in 1..Len(cleanedData) : P(cleanedData[i])}
CountAt(c, y) == Cardinality(RowsWhere(LAMBDA r : r.cause = c /\ r.year = y))
CountYear(y) == Cardinality(RowsWhere(LAMBDA r : r.year = y))
CountCause(c) == Cardinality(RowsWhere(LAMBDA r : r.cause = c))
FirstSeen(c) == CHOOSE i \in RowsWhere(LAMBDA r : r.cause = c) :
                    \A j \in RowsWhere(LAMBDA r : r.cause = c) : i <= j
YearsSeen == {cleanedData[i].year : i \in 1..Len(cleanedData)}
CausesSeen == {cleanedData[i].cause : i \in 1..Len(cleanedData)}

\* C3: at every year the bands follow the category order, the first starts at
\* 0, each band starts where the previous one ends, each band is as high as
\* its category's count in that year, and the last ends at the year's total.
StackedBands ==
    pc = "mounted" =>
        LET s == chart.series
            n == Len(s)
        IN  /\ n = Len(chart.sortedCauses)
            /\ \A k \in 1..n :
                  /\ s[k].key = chart.sortedCauses[k]
                  /\ {s[k].points[j].year : j \in 1..Len(s[k].points)} = YearsSeen
                  /\ Len(s[k].points) = Cardinality(YearsSeen)
                  /\ \A j \in 1..Len(s[k].points) :
                        LET b == s[k].points[j]
                        IN  /\ (k = 1 => b.y0 = 0)
                            /\ (k < n => b.y1 = s[k + 1].points[j].y0)
                            /\ b.y1 - b.y0 = CountAt(s[k].key, b.year)
                            /\ (k = n => b.y1 = CountYear(b.year))

\* Two years and three bands, one of them empty in a year.
EmptyBandReached ==
    /\ pc = "mounted"
    /\ Len(chart.series) = 3
    /\ Len(chart.series[1].points) = 2
    /\ \E k \in 1..3, j \in 1..2 :
          /\ chart.series[k].points[j].y0 = chart.series[k].points[j].y1
          /\ chart.series[k].points[j].y0 > 0

\* C4: the category order lists every category once, by total descending and,
\* among equal totals, by first appearance in the rows; the stack keys, the
\* colour domain and the legend use that same order.
CategoryOrder ==
    pc = "mounted" =>
        LET o == chart.sortedCauses
        IN  /\ Range(o) = CausesSeen
            /\ Len(o) = Cardinality(CausesSeen)
            /\ \A i \in 1..Len(o), j \in 1..Len(o) :
                  i < j =>
                     \/ CountCause(o[i]) > CountCause(o[j])
                     \/ /\ CountCause(o[i]) = CountCause(o[j])
                        /\ FirstSeen(o[i]) < FirstSeen(o[j])
            /\ [k \in 1..Len(chart.series) |-> chart.series[k].key] = o
            /\ chart.colorDomain = o
            /\ chart.legend = o

\* Three categories of equal total, first seen against the alphabet.
TiedCategoriesReached ==
    /\ pc = "mounted"
    /\ chart.sortedCauses = <<"C", "A", "B">>
    /\ CountCause("A") = 1 /\ CountCause("B") = 1 /\ CountCause("C") = 1

\* The sum of the leaf crash counts of a hierarchy.
LeafCrashes(root) == SumSeq([l \in 1..Len(Leaves(root)) |-> Leaves(root)[l].leaf.crashes])

\* C5: for a cause with no rows Home shows the NotFound paragraph and builds no
\* treemap; for a cause with N rows it shows a root -> location -> survivor
\* bucket hierarchy whose leaf crash counts sum to N.
DetailHierarchy ==
    pc = "mounted" =>
        \A c \in Causes :
              LET shown == HomeRender(props, c)
                  mine == RowsWhere(LAMBDA r : r.cause = c)
              IN  /\ (mine = {} => shown.view = "NotFound" /\ shown.root = NoRoot)
                  /\ (mine # {} =>
                        /\ shown.view = "Treemap"
                        /\ LeafCrashes(shown.root) = Cardinality(mine)
                        /\ shown.root.value = Cardinality(mine)
                        /\ {shown.root.children[g].name :
                                g \in 1..Len(shown.root.children)}
                              = {cleanedData[i].location : i \in mine}
                        /\ \A l \in 1..Len(Leaves(shown.root)) :
                              Leaves(shown.root)[l].leaf.name \in SurvivorFlags)

\* A cause with two rows at one location, one with one row, one with none.
DetailOfTwoRowsReached ==
    /\ pc = "mounted"
    /\ CountCause("A") = 2
    /\ CountCause("B") = 0
    /\ CountCause("C") = 1
    /\ HomeRender(props, "B").view = "NotFound"
    /\ Len(HomeRender(props, "A").root.children) = 1
    /\ LeafCrashes(HomeRender(props, "A").root) = 2

\* The survivor values occurring among the rows of a set of row indices.
SurvivorsOf(rows) == {cleanedData[i].survivors : i \in rows}
NamesOf(children) == {children[i].name : i \in 1..Len(children)}

\* C8: the two-record input gives one point, year 2000, with bands A: 0-1 and
\* B: 1-2, and an aggregate hierarchy with A -> "No" (1 crash, 5 fatalities)
\* and B -> "Yes" (1 crash, 0 fatalities); no node ever holds a survivor bucket
\* without rows.
EndToEnd ==
    /\ (pc = "mounted" /\ cleanedData = EndToEndData =>
           /\ chart.series =
                 << [key |-> "A", points |-> <<[y0 |-> 0, y1 |-> 1, year |-> 2000]>>],
                    [key |-> "B", points |-> <<[y0 |-> 1, y1 |-> 2, year |-> 2000]>>] >>
           /\ props.treemapDefaultData =
                 << [name |-> "A",
                     children |-> <<[name |-> "No", crashes |-> 1, fatalities |-> 5]>>],
                    [name |-> "B",
                     children |-> <<[name |-> "Yes", crashes |-> 1, fatalities |-> 0]>>] >>)
    /\ (pc # "static" =>
           /\ \A g \in 1..Len(props.treemapDefaultData) :
                 LET node == props.treemapDefaultData[g]
                 IN  /\ NamesOf(node.children)
                          = SurvivorsOf(RowsWhere(LAMBDA r : r.cause = node.name))
                     /\ \A i \in 1..Len(node.children) : node.children[i].crashes >= 1
           /\ \A c \in DOMAIN props.treemapInteractiveData :
                 \A g \in 1..Len(props.treemapInteractiveData[c].locations) :
                    LET node == props.treemapInteractiveData[c].locations[g]
                    IN  /\ NamesOf(node.children)
                             = SurvivorsOf(RowsWhere(LAMBDA r : r.cause = c
                                                       /\ r.location = node.name))
                        /\ \A i \in 1..Len(node.children) : node.children[i].crashes >= 1)

\* The page mounted on the two-record input.
EndToEndReached ==
    /\ pc = "mounted"
    /\ cleanedData = EndToEndData
    /\ Len(chart.series) = 2

\* Position of the child called name among the children as they arrive.
Position(arrived, name) == CHOOSE i \in 1..Len(arrived) : arrived[i].name = name

\* Children by value descending, equal values in the order of arrival.
OrderedStable(sorted, arrived) ==
    /\ Len(sorted) = Len(arrived)
    /\ NamesOf(sorted) = NamesOf(arrived)
    /\ \A i \in 1..Len(sorted), j \in 1..Len(sorted) :
          i < j =>
             \/ sorted[i].value > sorted[j].value
             \/ /\ sorted[i].value = sorted[j].value
                /\ Position(arrived, sorted[i].name) < Position(arrived, sorted[j].name)

\* The names in alphabetical order.
NameOrder == <<"A", "B", "C", "No", "X", "Y", "Yes">>
NameIndex(name) == CHOOSE i \in 1..Len(NameOrder) : NameOrder[i] = name

\* Children by value descending, equal values by name.
OrderedByName(sorted) ==
    \A i \in 1..Len(sorted), j \in 1..Len(sorted) :
        i < j =>
           \/ sorted[i].value > sorted[j].value
           \/ /\ sorted[i].value = sorted[j].value
              /\ NameIndex(sorted[i].name) < NameIndex(sorted[j].name)

\* C9 as amended: before layout the children of every treemap node are ordered
\* by value descending, children of equal value keeping the order in which
\* they arrive in the data.
ChildOrderStable ==
    pc = "mounted" =>
        /\ treemap = HomeRender(props, selectedCause)
        /\ \A sel \in CausesSeen \cup {NULL} :
              LET arrived == TreemapData(props, sel).children
                  sorted == HomeRender(props, sel).root.children
              IN  /\ OrderedStable(sorted, arrived)
                  /\ \A g \in 1..Len(sorted) :
                        OrderedStable(sorted[g].children,
                                      arrived[Position(arrived, sorted[g].name)].children)

\* C9 as stated: children ordered by value descending, equal values by name.
ChildOrderByName ==
    pc = "mounted" =>
        \A sel \in CausesSeen \cup {NULL} :
            LET sorted == HomeRender(props, sel).root.children
            IN  /\ OrderedByName(sorted)
                /\ \A g \in 1..Len(sorted) : OrderedByName(sorted[g].children)

\* Two cause nodes of equal value that arrived against the alphabet.
TiedChildrenReached ==
    /\ pc = "mounted"
    /\ treemap.view = "Treemap"
    /\ selectedCause = NULL
    /\ Len(treemap.root.children) = 2
    /\ treemap.root.children[1].name = "B"
    /\ treemap.root.children[2].name = "A"
    /\ treemap.root.children[1].value = treemap.root.children[2].value

\* C6: the hover intervals are pairwise disjoint and cover the x-domain: every
\* year from the first to the last is in exactly one interval, every interval
\* starts at a multiple of 10 with start <= end, and the last ends at the last
\* year.
DecadeIntervals ==
    pc = "mounted" /\ chart.domain # <<>> =>
        LET rs == chart.decadeRanges
            minYear == chart.domain[1]
            maxYear == chart.domain[2]
        IN  /\ \A y \in minYear..maxYear :
                  Cardinality({i \in 1..Len(rs) : InRange(y, rs[i])}) = 1
            /\ \A i \in 1..Len(rs) : rs[i].start % 10 = 0 /\ rs[i].start <= rs[i].end
            /\ rs # <<>>
            /\ rs[Len(rs)].end = maxYear

(***************************************************************************)
(* Claim about the reachable selections (specification Spec).              *)
(***************************************************************************)
\* C11: in every reachable state selectedCause is NULL or a cause with at
\* least one row and an entry in the per-cause detail data; the NotFound
\* paragraph is never shown, and the treemap shows the aggregate hierarchy
\* when selectedCause is NULL and the selected cause's detail hierarchy
\* otherwise.
SelectionHasData ==
    /\ \/ selectedCause = NULL
       \/ /\ selectedCause \in CausesSeen
          /\ CountCause(selectedCause) >= 1
          /\ selectedCause \in DOMAIN props.treemapInteractiveData
    /\ treemap.view # "NotFound"
    /\ (pc = "mounted" =>
           /\ treemap.view = "Treemap"
           /\ treemap.root =
                 IF selectedCause = NULL
                 THEN TreemapEffect([name |-> "Root",
                                     children |-> props.treemapDefaultData])
                 ELSE TreemapEffect([name |-> "Root",
                                     children |->
                                        props.treemapInteractiveData[selectedCause].locations]))

\* The detail treemap of a selected cause hovered, after a hover on the chart,
\* while one cause of the universe has no rows.
DetailShownReached ==
    /\ lastEvent.type = "leafMouseover"
    /\ selectedCause = "B"
    /\ CountCause("B") = 2
    /\ CountCause("C") = 0
    /\ areaTooltip.opacity = 1
    /\ Len(treemap.root.children) = 1
    /\ treemap.root.children[1].name = "X"
    /\ treemap.root.value = 2

====
